---------------------------- MODULE Spec2Model ----------------------------
(***************************************************************************)
(* A model of src/main.py: the TypewriterText class (text revealed one     *)
(* character per delay interval) and the main game loop that walks the     *)
(* story table choices_tree by numbered choices.                           *)
(*                                                                         *)
(* Texts are TLA+ strings; Len, SubSeq and \o act on them as on Python     *)
(* strings.  Time is the value of pygame.time.get_ticks() in milliseconds. *)
(*                                                                         *)
(* Two specifications are defined:                                         *)
(*   Spec    the program: main() running on the shipped story table;       *)
(*   SpecTW  one TypewriterText object driven by arbitrary calls of its    *)
(*           methods on short texts.                                       *)
(***************************************************************************)
EXTENDS Integers, Sequences, FiniteSets, TLC

VARIABLES
    game_state,         \* main: 'narrative', 'choice' or 'ending'
    current_node_key,   \* main: key of the node being shown
    next_key,           \* main: the local next_key, the key derived by the last
                        \*   accepted choice ("" before the first one)
    accepted,           \* the number of choices accepted since the loop was
                        \*   entered (the passes through lines 360-387)
    transitions,        \* the number of choices accepted in the current pass
                        \*   of the while loop
    running,            \* main: the loop flag
    fullscreen,         \* display: toggled by pygame.display.toggle_fullscreen()
    pc,                 \* "loop": at the top of a pass of the while loop (inside
                        \*   the for loop over the events of this pass);
                        \* "done": the loop was left; "KeyError": main() raised;
                        \* "object": a TypewriterText used on its own (SpecTW)
    full_text,          \* TypewriterText.full_text
    current_index,      \* TypewriterText.current_index
    last_update,        \* TypewriterText.last_update
    sound,              \* TypewriterText.sound is not None (typing_channel exists)
    channel_busy,       \* typing_channel.get_busy()
    playbacks,          \* typing_channel: the play() calls made on the channel
                        \*   since it was last idle (0 when it is not busy)
    font,               \* TypewriterText.font: the advance of a character and
                        \*   the line size of the monospaced font
    max_width,          \* TypewriterText.max_width
    max_height,         \* TypewriterText.max_height
    now,                \* pygame.time.get_ticks()
    surface,            \* what the last draw(surface) drew on the surface it
                        \*   was given: main()'s screen, or the surface of Draw
    table,              \* main: the name of the story table choices_tree holds
    period,             \* SpecFR: the time between two update() calls
    other,              \* SpecFR: a second TypewriterText with the same text,
                        \*   updated with a period of its own
    frame_due           \* SpecFR: the objects whose update() at time now is
                        \*   still to be called

\* the fields __init__ sets and no method assigns
tw_fixed == <<sound, font, max_width, max_height>>

tw_vars == <<full_text, current_index, last_update, channel_busy, playbacks, tw_fixed>>

sched_vars == <<period, other, frame_due>>

main_vars ==
    <<game_state, current_node_key, next_key, accepted, transitions, running, fullscreen>>

vars == <<game_state, current_node_key, next_key, accepted, transitions,
          running, fullscreen, pc,
          full_text, current_index, last_update, sound, channel_busy, playbacks,
          font, max_width, max_height, now, surface, table, period, other, frame_due>>

-----------------------------------------------------------------------------
(* Bounds of the model *)

\* The clock is followed up to this many milliseconds.
MaxTicks == 112

\* Possible durations, in ms, of one pass of the main loop: clock.tick(60)
\* waits until at least 1000/60 ms have passed; a slow pass takes longer.
FrameSteps == {16, 30, 31}

\* Amounts of time, in ms, that pass between two calls on a TypewriterText
\* used on its own.
TickSteps == {15, 31}

\* Texts given to a TypewriterText used on its own: every string of at most
\* MaxTextLen characters over Alphabet (a letter, a space, a line break).
MaxTextLen == 3

\* SpecDraw: the clock stops at MaxDrawTicks, and advances by DrawSteps, so
\* that both phases of the cursor (500 ms each) are seen
MaxDrawTicks == 500

DrawSteps == {250}

Alphabet == {"a", " ", "\n"}

RECURSIVE Strings(_)
Strings(n) ==
    IF n = 0
    THEN {""}
    ELSE LET S == Strings(n - 1) IN S \cup {s \o c : s \in S, c \in Alphabet}

TextInputs == Strings(MaxTextLen)

-----------------------------------------------------------------------------
(* Program constants *)

\* pygame key codes
K_ESCAPE == 27
K_SPACE == 32
K_1 == 49
K_9 == 57
K_F1 == 1073741882
K_F4 == 1073741885

\* delay=30 passed to the TypewriterText constructor by main()
delay == 30

\* text_area_rect = pygame.Rect(10, 30, 780, 300) and text_margin, lines 212-213
text_area_x == 10

text_area_y == 30

text_area_width == 780

text_area_height == 300

text_margin == 10

\* pos, the top-left corner of the text, line 332
pos == <<text_area_x + text_margin, text_area_y + text_margin>>

\* font = pygame.font.SysFont("Courier New", 24), lines 33 and 194: every
\* character of a monospaced font has the same advance (the pixel values
\* depend on the font file of the system)
MainFont == [char_width |-> 14, linesize |-> 27]

\* a surface on which nothing was drawn
Blank == [drawn |-> FALSE, lines |-> <<>>, start_y |-> 0, visible |-> {}, blits |-> <<>>]

\* the value of other when there is no second object
NoObject == [period |-> 0, current_index |-> 0, last_update |-> 0]

\* the keys pressed: the keys main() tests, the digit keys, and the keys
\* just outside the digit range ('0' and ':')
Keys == {K_ESCAPE, K_SPACE, K_F1, K_F4} \cup ((K_1 - 1) .. (K_9 + 1))

\* UNWRITTEN replaced by the default text of line 377
UNWRITTEN_mut == "The story ends here."

UNWRITTEN == "This path has not been written yet. The story ends here."

STORY_ENDS == "The story ends here."

\* the story table: lines 228-324.  The three non-ASCII characters of the
\* text of "1_2" are written "---" (the same length).
story ==
    ("start" :>
      [text |->
         "Chapter 1: The Awakening\n\nYou are playing a newly released game in a dark, silent room. It's your deserved reward after all.\nYou waited 14 years for it. Now it is finally available in your hand. Enjoying it is your virtue.\nBut some noise starts coming apart, disturbing your joy in the process.",
       choices |-> <<"Investigate the noise",
                     "Ignore it">>]) @@
    ("1" :>
      [text |->
         "You chose to investigate the noise. It becomes more static, giving eerie vibes and it grows louder.\nDo you really want to investigate the sound or call someone?",
       choices |-> <<"Yes, these things don't scare me anymore.",
                     "Call someone for help">>]) @@
    ("2" :>
      [text |->
         "You chose to ignore the noise. You enjoy the loading screen and one specific picture.\nNoise from outside starts growing?\nDo you want to investigate the sound or keep playing anyway?",
       choices |-> <<"Ahh! So irritating",
                     "Keep playing anyway">>]) @@
    ("1_1" :>
      [text |->
         "You move forward, braver now. After all, it's your home. If you don't protect it, who will? Bracing yourself, you cross the hallway to the door. There you see your coat hanging on a metal hanger.",
       choices |-> <<"Wear coat",
                     "Wear coat and take metal hanger as weapon",
                     "Just enter">>]) @@
    ("1_2" :>
      [text |->
         "You try to call someone, but there's no signal. You're confused---the signal is always strong in this room.",
       choices |-> <<"Investigate the sound by yourself",
                     "Go back and try again with your PC">>]) @@
    ("2_1" :>
      [text |->
         "You stand up angrily. Irritated by the noise, you grab a nearby flashlight and the beer bottle you were about to enjoy with your game.",
       choices |-> <<"Rush the hallway",
                     "Walk the hallway in a normal pace">>]) @@
    ("2_2" :>
      [text |->
         "You keep playing. Now you control the playable character.",
       choices |-> <<"Punch an NPC",
                     "Do a mission in the game">>]) @@
    ("1_1_1" :>
      [text |->
         "You wear the coat. It feels heavier than usual, but provides a small sense of security. You grip the doorknob. It's strangely cold, almost unnaturally so as you slowly turn it. The noise on the other side stops abruptly. The silence is now even more terrifying than the noise was.",
       choices |-> <<"fling the door open.",
                     "Open the door slowly and peek.",
                     "Call out,'Who's there?">>]) @@
    ("1_1_2" :>
      [text |->
         "You wear the coat and rip the metal hanger off the hook. You bend it into a crude, sharp point. It feels better than nothing. You grip the doorknob. It's strangely cold, almost unnaturally so as you slowly turn it. The noise on the other side stops abruptly.",
       choices |-> <<"fling the door open.",
                     "Open the door slowly and peek.",
                     "Call out, 'Who's there?'">>]) @@
    ("1_1_3" :>
      [text |->
         "You decide to face whatever is there with your undies that you were wearing. You slowly, silently, turn the knob slowly which felt strangely cold and the noise beyond the door stop suddenly.",
       choices |-> <<"Push the door fully open.",
                     "Close the door and reconsider.">>]) @@
    ("1_2_1" :>
      [redirect |-> "1_1"]) @@
    ("1_2_2" :>
      [text |->
         "You decide this is too strange. You go back to your PC, You cancel the game that you were so desperate to play but you didn't download from offical website so you were redirected to a porn site.",
       choices |-> <<"Try to close the porn site.",
                     "Enjoy it afterall who is looking?",
                     "Force shutdown the pc">>]) @@
    ("2_1_1" :>
      [text |->
         "Fueled by annoyance, you rush down the hallway, flashlight beam bouncing wildly. You round the corner to the hallway and kicks open the door and the light falls on a oddly figure. It's tall, unnaturally thin, and turns its head towards you with an audible crack of neck.",
       choices |-> <<"Throw the beer bottle at it.",
                     "Freeze and stare in it eyes.">>]) @@
    ("2_1_2" :>
      [text |->
         "You walk calmly, flashlight off, using the dim moonlight to see. The noise is a rhythmic scraping coming from the outside of hallway room. You open the door and light falls on a oddly figure. It's tall, unnaturally thin, and turns its head towards you with an audible crack of neck.",
       choices |-> <<"Flick on the flashlight to startle it.",
                     "Quietly back away.">>]) @@
    ("2_2_1" :>
      [text |->
         "Every start of a game of Gta,we always punch a npc to celebrate the download of the game and so you did it. Keeping the tradition alive.",
       choices |-> <<"Punch even more npc?",
                     "Investigate the sound that irritating you?">>]) @@
    ("2_2_2" :>
      [text |->
         "You ignore the real-world noise and focus on the game. The quest-giver, a mafia, looks at you, but his dialogue box says, 'Gang B is has stolen ours supplies recover it or you dead' The text is bright red",
       choices |-> <<"Kill the Npc.",
                     "Ask the NPC a question in-game.",
                     "Investigate the sound that irritating you?">>]) @@
    ("1_1_1_1" :>
      [text |->
         "You throw the door open to an empty living room. You hear rough breathing sound towards a certain direction.",
       choices |-> <<"Flash your flashlight towards it.",
                     "throw the flashlight at it.",
                     "Scream at it.">>]) @@
    ("1_1_1_2" :>
      [text |->
         "You peek out. Closing your flashlight so you can be like an assassin. You open the door slowly.",
       choices |-> <<"Crawl on the surface.",
                     "Crouch on the surface and walk",
                     "Walk in this situation.">>]) @@
    ("1_1_1_3" :>
      [text |->
         "Your voice echoes in the silent house. There is no reply.",
       choices |-> <<"Flash your flashlight at random direction",
                     "Shout once again",
                     "Go back inside">>]) @@
    ("1_1_2_1" :>
      [text |->
         "You burst through the door with a war cry and enters the living room while flashing the light falls on an oddly figure. It's tall, unnaturally thin, and turns its head towards you with an audible crack of neck.",
       choices |-> <<"Flash your flashlight on it.",
                     "Throw the nearby chair at it",
                     "Try to talk with it">>]) @@
    ("1_1_2_2" :>
      [text |->
         "Holding your makeshift weapon in your hand you cautiously turn the doorknob, peeking through the door as cautiously as possible.\n\nWhat would you do next?",
       choices |-> <<"Crawl on the surface.",
                     "Crouch on the surface and walk",
                     "Walk in this situation.">>]) @@
    ("1_1_2_3" :>
      [text |->
         "After opening the door. You call out by saying, 'Who's there? If you are a thief, you picked the wrong house, mate. I will call the police in a few seconds. You hear me, mate?'",
       choices |-> <<"Wait for the response",
                     "Start calling the police",
                     "Step more forward with your flashlight.">>]) @@
    ("1_1_3_1" :>
      [text |->
         "You push the door open proudly. You don't need a weapon to respond to such danger or anything. Flashing your light, you see an oddly figure. It's tall and unnaturally thin. Turning its head slowly towards the direction of the light.",
       choices |-> <<"'Who are you?' or 'What are you?'",
                     "Give a 'War cry'",
                     "Just go back inside">>]) @@
    ("1_1_3_2" :>
      [text |->
         "You got an awakening and finally your one brain cell thought: 'Is it really okay to fight in my undies?'",
       choices |-> <<"Wear the coat",
                     "Wear coat and take metal hanger as weapon",
                     "Just enter (again)">>])


\* Other tables main() could be given in place of the shipped one, with the
\* same node shapes: "ending" has a node without choices, an alias of it and
\* a node whose only choice is unwritten; in "chain" the target of a redirect
\* is itself a redirect; in "cycle" two redirects name each other.
Tables ==
    "ending" :>
       ( "start" :> [text |-> "s", choices |-> <<"a", "b", "c">>]
      @@ "1"     :> [text |-> "e", choices |-> <<>>]
      @@ "2"     :> [redirect |-> "1"]
      @@ "3"     :> [text |-> "t", choices |-> <<"x">>] )
 @@ "chain" :>
       ( "start" :> [text |-> "s", choices |-> <<"a", "b">>]
      @@ "1"     :> [redirect |-> "2"]
      @@ "2"     :> [redirect |-> "2_1"]
      @@ "2_1"   :> [text |-> "e", choices |-> <<>>] )
 @@ "cycle" :>
       ( "start" :> [text |-> "s", choices |-> <<"a", "b">>]
      @@ "1"     :> [redirect |-> "2"]
      @@ "2"     :> [redirect |-> "1"] )

\* story with the redirect of "1_2_1" naming a key that is not in the table
choices_tree_bad ==
    IF table = "shipped"
    THEN [k \in DOMAIN story |->
             IF k = "1_2_1" THEN [redirect |-> "1_3"] ELSE story[k]]
    ELSE Tables[table]

\* story with the redirect of "1_2_1" naming a redirect node
choices_tree_chained ==
    IF table = "shipped"
    THEN [k \in DOMAIN story |->
             IF k = "1_2_1" THEN [redirect |-> "1_2_1"] ELSE story[k]]
    ELSE Tables[table]

\* story with the redirect of "1_2_1" naming "1", a node it is reached from
choices_tree_cycle ==
    IF table = "shipped"
    THEN [k \in DOMAIN story |->
             IF k = "1_2_1" THEN [redirect |-> "1"] ELSE story[k]]
    ELSE Tables[table]

\* the table main() reads: the one of lines 228-324, or one of Tables
choices_tree == IF table = "shipped" THEN story ELSE Tables[table]

-----------------------------------------------------------------------------
(* TypewriterText *)

\* is_finished(): lines 179-181
is_finished == current_index >= Len(full_text)

\* set_text without the reset of current_index
set_text_mut(text) ==
    /\ full_text' = text
    /\ last_update' = now
    /\ channel_busy' = FALSE
    /\ playbacks' = 0
    /\ UNCHANGED <<current_index, tw_fixed>>

\* set_text(text): lines 68-74
set_text(text) ==
    /\ full_text' = text
    /\ current_index' = 0
    /\ last_update' = now
    /\ channel_busy' = FALSE      \* typing_channel.stop(), if there is a channel
    /\ playbacks' = 0
    /\ UNCHANGED tw_fixed

\* play_typing_sound without the test of get_busy()
play_typing_sound_mut ==
    IF sound
    THEN [busy |-> TRUE, playbacks |-> playbacks + 1]
    ELSE [busy |-> channel_busy, playbacks |-> playbacks]

\* play_typing_sound(): lines 76-79; the state of the channel after the call
play_typing_sound ==
    IF sound /\ ~channel_busy
    THEN [busy |-> TRUE, playbacks |-> playbacks + 1]    \* typing_channel.play()
    ELSE [busy |-> channel_busy, playbacks |-> playbacks]

\* update without the test of is_finished()
update_mut ==
    /\ IF now - last_update > delay
       THEN /\ last_update' = now
            /\ current_index' = current_index + 1
       ELSE UNCHANGED <<last_update, current_index>>
    /\ UNCHANGED <<full_text, tw_fixed>>
    /\ channel_busy' =
         IF is_finished' /\ sound
         THEN FALSE
         ELSE IF now - last_update > delay
              THEN play_typing_sound.busy
              ELSE channel_busy
    /\ playbacks' =
         IF is_finished' /\ sound
         THEN 0
         ELSE IF now - last_update > delay
              THEN play_typing_sound.playbacks
              ELSE playbacks

\* update with >= in place of > in the test of the elapsed time
update_ge ==
    /\ IF ~is_finished /\ now - last_update >= delay
       THEN /\ last_update' = now
            /\ current_index' = current_index + 1
       ELSE UNCHANGED <<last_update, current_index>>
    /\ UNCHANGED <<full_text, tw_fixed>>
    /\ channel_busy' =
         IF is_finished' /\ sound
         THEN FALSE
         ELSE IF ~is_finished /\ now - last_update >= delay
              THEN play_typing_sound.busy
              ELSE channel_busy
    /\ playbacks' =
         IF is_finished' /\ sound
         THEN 0
         ELSE IF ~is_finished /\ now - last_update >= delay
              THEN play_typing_sound.playbacks
              ELSE playbacks

\* update(): lines 81-89
update ==
    /\ IF ~is_finished /\ now - last_update > delay
       THEN /\ last_update' = now
            /\ current_index' = current_index + 1
       ELSE UNCHANGED <<last_update, current_index>>
    /\ UNCHANGED <<full_text, tw_fixed>>
    /\ channel_busy' =
         IF is_finished' /\ sound
         THEN FALSE                                   \* typing_channel.stop()
         ELSE IF ~is_finished /\ now - last_update > delay
              THEN play_typing_sound.busy
              ELSE channel_busy
    /\ playbacks' =
         IF is_finished' /\ sound
         THEN 0
         ELSE IF ~is_finished /\ now - last_update > delay
              THEN play_typing_sound.playbacks
              ELSE playbacks

\* complete stopping one character short
complete_mut ==
    /\ current_index' = Len(full_text) - 1
    /\ channel_busy' = FALSE
    /\ playbacks' = 0
    /\ UNCHANGED <<full_text, last_update, tw_fixed>>

\* complete(): lines 173-177
complete ==
    /\ current_index' = Len(full_text)
    /\ channel_busy' = FALSE
    /\ playbacks' = 0
    /\ UNCHANGED <<full_text, last_update, tw_fixed>>

\* the characters str.strip() removes, among those of the texts used here
Whitespace == {" ", "\n", "\t"}

RECURSIVE LStrip(_)
\* str.lstrip()
LStrip(s) ==
    IF Len(s) > 0 /\ SubSeq(s, 1, 1) \in Whitespace
    THEN LStrip(SubSeq(s, 2, Len(s)))
    ELSE s

RECURSIVE RStrip(_)
\* str.rstrip()
RStrip(s) ==
    IF Len(s) > 0 /\ SubSeq(s, Len(s), Len(s)) \in Whitespace
    THEN RStrip(SubSeq(s, 1, Len(s) - 1))
    ELSE s

\* str.strip()
Strip(s) == RStrip(LStrip(s))

RECURSIVE Find(_, _, _)
\* the first position from i on where sep occurs in s, 0 when there is none
Find(s, sep, i) ==
    IF i + Len(sep) - 1 > Len(s)
    THEN 0
    ELSE IF SubSeq(s, i, i + Len(sep) - 1) = sep
         THEN i
         ELSE Find(s, sep, i + 1)

RECURSIVE Split(_, _)
\* s.split(sep)
Split(s, sep) ==
    LET i == Find(s, sep, 1) IN
    IF i = 0
    THEN <<s>>
    ELSE <<SubSeq(s, 1, i - 1)>> \o Split(SubSeq(s, i + Len(sep), Len(s)), sep)

\* s.startswith(prefix)
StartsWith(s, prefix) ==
    Len(s) >= Len(prefix) /\ SubSeq(s, 1, Len(prefix)) = prefix

\* font.size(s)[0] and the width of font.render(s, ...)
size(s) == font.char_width * Len(s)

RECURSIVE wrap_words(_, _, _)
\* lines 101-109: the loop over the words of a paragraph and the append
\* after it
wrap_words(words, current_line, wrapped_lines) ==
    IF words = <<>>
    THEN Append(wrapped_lines, current_line)
    ELSE LET word == Head(words)
             test_line == Strip(current_line \o " " \o word)
         IN IF size(test_line) <= max_width
            THEN wrap_words(Tail(words), test_line, wrapped_lines)
            ELSE wrap_words(Tail(words), word, Append(wrapped_lines, current_line))

RECURSIVE wrap_paragraphs(_)
\* lines 95-109: the loop over the paragraphs
wrap_paragraphs(paragraphs) ==
    IF paragraphs = <<>>
    THEN <<>>
    ELSE LET paragraph == Head(paragraphs) IN
         (IF Strip(paragraph) = ""
          THEN <<"">>
          ELSE wrap_words(Split(paragraph, " "), "", <<>>))
         \o wrap_paragraphs(Tail(paragraphs))

\* wrap_text giving no line for the empty text
wrap_text_mut(text) ==
    IF text = "" THEN <<>> ELSE wrap_paragraphs(Split(text, "\n"))

\* wrap_text(text): lines 91-110
wrap_text(text) == wrap_paragraphs(Split(text, "\n"))

RECURSIVE blit_segments(_, _, _)
\* lines 128-132: the segments around "14 years", and "14 years" in red
\* between them
blit_segments(segments, current_x, y) ==
    IF segments = <<>>
    THEN <<>>
    ELSE LET seg == Head(segments)
             after == current_x + size(seg)
         IN <<[text |-> seg, color |-> "color", x |-> current_x, y |-> y]>>
            \o (IF Len(segments) > 1
                THEN <<[text |-> "14 years", color |-> "RED", x |-> after, y |-> y]>>
                     \o blit_segments(Tail(segments), after + size("14 years"), y)
                ELSE <<>>)

RECURSIVE Sum(_)
\* sum() of a sequence of numbers
Sum(ns) == IF ns = <<>> THEN 0 ELSE Head(ns) + Sum(Tail(ns))

\* draw_line_with_formatting(surface, line, base_x, y, center): lines
\* 112-139; the blits it makes
draw_line_with_formatting(line, base_x, y, center) ==
    IF Find(line, "14 years", 1) # 0
    THEN LET segments == Split(line, "14 years")
             total_width == Sum([i \in 1 .. Len(segments) |-> size(segments[i])])
                              + size("14 years") * (Len(segments) - 1)
             current_x == IF center
                          THEN base_x + (max_width - total_width) \div 2
                          ELSE base_x
         IN blit_segments(segments, current_x, y)
    ELSE LET x == IF center
                  THEN base_x + (max_width - size(line)) \div 2
                  ELSE base_x
         IN <<[text |-> line, color |-> "color", x |-> x, y |-> y]>>

RECURSIVE Concat(_)
\* the sequences of a sequence, one after the other
Concat(ss) == IF ss = <<>> THEN <<>> ELSE Head(ss) \o Concat(Tail(ss))

\* scroll_start that never scrolls
scroll_start_mut(total_text_height, y_start_area) == y_start_area

\* lines 150-153: start_y, the vertical position of the first line
scroll_start(total_text_height, y_start_area) ==
    IF total_text_height > max_height
    THEN y_start_area + max_height - total_text_height
    ELSE y_start_area

\* draw(surface): lines 141-171; the surface after the call, with the values
\* of the locals lines and start_y and the indexes of the lines drawn
rendering ==
    LET current_text_segment == SubSeq(full_text, 1, current_index)
        lines == wrap_text(current_text_segment)
        line_spacing == font.linesize
        total_text_height == Len(lines) * line_spacing
        x == pos[1]
        y_start_area == pos[2]
        start_y == scroll_start(total_text_height, y_start_area)
        in_band(y) == y_start_area <= y /\ y < y_start_area + max_height
        line_y(i) == start_y + (i - 1) * line_spacing
        line_blits(i) ==
            IF in_band(line_y(i))
            THEN draw_line_with_formatting(
                     lines[i], x, line_y(i),
                     i = 1 /\ StartsWith(Strip(lines[i]), "Chapter"))
            ELSE <<>>
        last_line_text == IF Len(lines) > 0 THEN lines[Len(lines)] ELSE ""
        cursor_x == x + size(last_line_text)
        cursor_y == start_y + (Len(lines) - 1) * line_spacing
        cursor == IF ~is_finished /\ (now \div 500) % 2 = 0 /\ in_band(cursor_y)
                  THEN <<[text |-> "_", color |-> "color", x |-> cursor_x, y |-> cursor_y]>>
                  ELSE <<>>
    IN [drawn |-> TRUE,
        lines |-> lines,
        start_y |-> start_y,
        visible |-> {i \in 1 .. Len(lines) : in_band(line_y(i))},
        blits |-> Concat([i \in 1 .. Len(lines) |-> line_blits(i)]) \o cursor]

\* draw(surface): lines 141-171.  It reads the object and the clock and
\* writes only to the surface: no field of the object changes.
draw == UNCHANGED tw_vars

-----------------------------------------------------------------------------
(* main(): the game loop *)

\* choices_tree.get(key, {}).get("choices", []) of lines 358 and 401
choices_of(key) ==
    IF key \in DOMAIN choices_tree /\ "choices" \in DOMAIN choices_tree[key]
    THEN choices_tree[key].choices
    ELSE <<>>

\* lines 354-356
choice_index(key) == IF K_1 <= key /\ key <= K_9 THEN key - K_1 ELSE -1

\* derived_key without the case of the root key
derived_key_mut(node_key, i) == node_key \o "_" \o ToString(i + 1)

\* lines 361-364: the value given to next_key
derived_key(node_key, i) ==
    IF node_key = "start"
    THEN ToString(i + 1)
    ELSE node_key \o "_" \o ToString(i + 1)

\* resolve that does not follow the redirect
resolve_mut(key) == key

\* lines 371-374: the key the transition moves to
resolve(key) ==
    IF "redirect" \in DOMAIN choices_tree[key]
    THEN choices_tree[key].redirect
    ELSE key

\* choices_tree[key].get("text", "The story ends here."), line 377
text_of(key) ==
    IF "text" \in DOMAIN choices_tree[key]
    THEN choices_tree[key].text
    ELSE STORY_ENDS

\* transition that never ends the game at a node of the table
transition_mut(i) ==
    LET nk == derived_key(current_node_key, i) IN
    /\ next_key' = nk
    /\ accepted' = accepted + 1
    /\ transitions' = transitions + 1
    /\ IF nk \in DOMAIN choices_tree
       THEN LET target == resolve(nk) IN
            IF target \notin DOMAIN choices_tree
            THEN /\ current_node_key' = target
                 /\ pc' = "KeyError"
                 /\ UNCHANGED <<game_state, tw_vars>>
            ELSE /\ current_node_key' = target
                 /\ set_text(text_of(target))
                 /\ game_state' = "narrative"
                 /\ UNCHANGED pc
       ELSE /\ set_text(UNWRITTEN)
            /\ game_state' = "ending"
            /\ UNCHANGED <<current_node_key, pc>>

\* lines 360-387: an accepted choice
transition(i) ==
    LET nk == derived_key(current_node_key, i) IN
    /\ next_key' = nk
    /\ accepted' = accepted + 1
    /\ transitions' = transitions + 1
    /\ IF nk \in DOMAIN choices_tree
       THEN LET target == resolve(nk) IN
            IF target \notin DOMAIN choices_tree
            THEN \* choices_tree[current_node_key] of line 377 raises KeyError
                 /\ current_node_key' = target
                 /\ pc' = "KeyError"
                 /\ UNCHANGED <<game_state, tw_vars>>
            ELSE /\ current_node_key' = target
                 /\ set_text(text_of(target))
                 /\ game_state' = IF Len(choices_of(target)) > 0
                                  THEN "narrative"
                                  ELSE "ending"
                 /\ UNCHANGED pc
       ELSE /\ set_text(UNWRITTEN)
            /\ game_state' = "ending"
            /\ UNCHANGED <<current_node_key, pc>>

\* handle_choice with <= in place of < in the range test
handle_choice_mut(key) ==
    IF 0 <= choice_index(key) /\ choice_index(key) <= Len(choices_of(current_node_key))
    THEN transition(choice_index(key))
    ELSE UNCHANGED <<game_state, current_node_key, next_key, accepted, transitions, pc, tw_vars>>

\* lines 353-387: the numeric choices
handle_choice(key) ==
    IF 0 <= choice_index(key) /\ choice_index(key) < Len(choices_of(current_node_key))
    THEN transition(choice_index(key))
    ELSE UNCHANGED <<game_state, current_node_key, next_key, accepted, transitions, pc, tw_vars>>

\* lines 342-343: a QUIT event
QuitEvent ==
    /\ pc = "loop"
    /\ running' = FALSE
    /\ UNCHANGED <<game_state, current_node_key, next_key, accepted, transitions, fullscreen, pc, tw_vars, now>>
    /\ UNCHANGED <<surface, table, sched_vars>>

\* KeyDown completing the text on SPACE in every game state
KeyDown_space(key) ==
    /\ pc = "loop"
    /\ running' = IF key \in {K_ESCAPE, K_F1} THEN FALSE ELSE running
    /\ fullscreen' = IF key = K_F4 THEN ~fullscreen ELSE fullscreen
    /\ IF key = K_SPACE
       THEN complete /\ UNCHANGED <<game_state, current_node_key, next_key, accepted, transitions, pc>>
       ELSE IF game_state = "choice"
            THEN handle_choice(key)
            ELSE UNCHANGED <<game_state, current_node_key, next_key, accepted, transitions, pc, tw_vars>>
    /\ UNCHANGED <<now, surface, table, sched_vars>>

\* KeyDown handling the numeric choices in every game state
KeyDown_mut(key) ==
    /\ pc = "loop"
    /\ running' = IF key \in {K_ESCAPE, K_F1} THEN FALSE ELSE running
    /\ fullscreen' = IF key = K_F4 THEN ~fullscreen ELSE fullscreen
    /\ IF key = K_SPACE /\ game_state = "narrative"
       THEN complete /\ UNCHANGED <<game_state, current_node_key, next_key, accepted, transitions, pc>>
       ELSE handle_choice(key)
    /\ UNCHANGED <<now, surface, table, sched_vars>>

\* lines 344-387: a KEYDOWN event
KeyDown(key) ==
    /\ pc = "loop"
    /\ running' = IF key \in {K_ESCAPE, K_F1} THEN FALSE ELSE running
    /\ fullscreen' = IF key = K_F4 THEN ~fullscreen ELSE fullscreen
    /\ IF key = K_SPACE /\ game_state = "narrative"
       THEN complete /\ UNCHANGED <<game_state, current_node_key, next_key, accepted, transitions, pc>>
       ELSE IF game_state = "choice"
            THEN handle_choice(key)
            ELSE UNCHANGED <<game_state, current_node_key, next_key, accepted, transitions, pc, tw_vars>>
    /\ UNCHANGED <<now, surface, table, sched_vars>>

\* Frame switching to 'choice' without the test of is_finished()
Frame_mut(d) ==
    /\ pc = "loop"
    /\ now + d <= MaxTicks
    /\ update
    /\ game_state' = IF game_state = "narrative" THEN "choice" ELSE game_state
    /\ now' = now + d
    /\ pc' = IF running THEN "loop" ELSE "done"
    /\ UNCHANGED <<current_node_key, next_key, accepted, running, fullscreen>>
    /\ transitions' = 0
    /\ UNCHANGED <<surface, table, sched_vars>>

\* lines 389-422: the rest of a pass, after the events: update, the switch
\* to 'choice', the drawing, clock.tick(60), and the test of the while loop
Frame(d) ==
    /\ pc = "loop"
    /\ now + d <= MaxTicks
    /\ update
    /\ game_state' = IF game_state = "narrative" /\ is_finished'
                     THEN "choice"
                     ELSE game_state
    /\ now' = now + d
    /\ pc' = IF running THEN "loop" ELSE "done"
    /\ UNCHANGED <<current_node_key, next_key, accepted, running, fullscreen>>
    /\ transitions' = 0
    /\ UNCHANGED <<surface, table, sched_vars>>

\* the playback of the typing sound reaches its end
SoundEnds ==
    /\ pc \in {"loop", "object"}
    /\ channel_busy
    /\ channel_busy' = FALSE
    /\ playbacks' = 0
    /\ UNCHANGED <<main_vars, pc, full_text, current_index, last_update, tw_fixed, now>>
    /\ UNCHANGED <<surface, table, sched_vars>>

\* lines 326-335: the state when the loop is entered
Init ==
    /\ table = "shipped"
    /\ game_state = "narrative"
    /\ current_node_key = "start"
    /\ next_key = ""
    /\ accepted = 0
    /\ transitions = 0
    /\ running = TRUE
    /\ fullscreen = FALSE
    /\ pc = "loop"
    /\ now = 0
    /\ full_text = choices_tree["start"].text
    /\ current_index = 0
    /\ last_update = 0
    /\ sound \in BOOLEAN
    /\ channel_busy = FALSE
    /\ playbacks = 0
    /\ font = MainFont
    /\ max_width = text_area_width - 2 * text_margin
    /\ max_height = text_area_height - 2 * text_margin
    /\ surface = Blank
    /\ period = 0
    /\ other = NoObject
    /\ frame_due = {}

Next ==
    \/ QuitEvent
    \/ \E key \in Keys : KeyDown(key)
    \/ \E d \in FrameSteps : Frame(d)
    \/ SoundEnds

Spec == Init /\ [][Next]_vars

\* clock.tick(60), line 422: the time of a pass at 60 passes per second, ms
FramePeriod == 1000 \div 60

\* the player skips the animation: SPACE while the text is being typed
Skip ==
    /\ game_state = "narrative"
    /\ ~is_finished
    /\ KeyDown(K_SPACE)

\* the player makes a choice the node offers
Choose ==
    /\ game_state = "choice"
    /\ \E key \in K_1 .. K_9 : KeyDown(key) /\ accepted' = accepted + 1

\* the rest of the pass, for a player who has skipped the animation and who
\* chooses in the pass in which the choices are first shown
PlayFrame ==
    /\ game_state # "choice"
    /\ game_state = "narrative" => is_finished
    /\ Frame(FramePeriod)

NextPlay ==
    \/ Skip
    \/ Choose
    \/ PlayFrame

\* main() with a player who keeps playing: the loop keeps making passes, and
\* the player keeps skipping and choosing
SpecPlay ==
    /\ Init
    /\ [][NextPlay]_vars
    /\ WF_vars(Skip)
    /\ WF_vars(Choose)
    /\ WF_vars(PlayFrame)

\* main() started on the shipped table or on one of Tables
InitAny ==
    /\ table \in {"shipped"} \cup DOMAIN Tables
    /\ game_state = "narrative"
    /\ current_node_key = "start"
    /\ next_key = ""
    /\ accepted = 0
    /\ transitions = 0
    /\ running = TRUE
    /\ fullscreen = FALSE
    /\ pc = "loop"
    /\ now = 0
    /\ full_text = choices_tree["start"].text
    /\ current_index = 0
    /\ last_update = 0
    /\ sound \in BOOLEAN
    /\ channel_busy = FALSE
    /\ playbacks = 0
    /\ font = MainFont
    /\ max_width = text_area_width - 2 * text_margin
    /\ max_height = text_area_height - 2 * text_margin
    /\ surface = Blank
    /\ period = 0
    /\ other = NoObject
    /\ frame_due = {}

SpecAny == InitAny /\ [][Next]_vars

-----------------------------------------------------------------------------
(* A TypewriterText used on its own *)

TWSetText(text) ==
    /\ pc = "object"
    /\ set_text(text)
    /\ UNCHANGED <<main_vars, pc, now, surface, table, sched_vars>>

TWUpdate ==
    /\ pc = "object"
    /\ update
    /\ UNCHANGED <<main_vars, pc, now, surface, table, sched_vars>>

TWComplete ==
    /\ pc = "object"
    /\ complete
    /\ UNCHANGED <<main_vars, pc, now, surface, table, sched_vars>>

TWDraw ==
    /\ pc = "object"
    /\ draw
    /\ UNCHANGED <<main_vars, pc, now, surface, table, sched_vars>>

Tick(d) ==
    /\ pc = "object"
    /\ now + d <= MaxTicks
    /\ now' = now + d
    /\ UNCHANGED <<main_vars, pc, tw_vars, surface, table, sched_vars>>

\* __init__: lines 41-66, with the text given
InitTW ==
    /\ game_state = "narrative"
    /\ current_node_key = "start"
    /\ next_key = ""
    /\ accepted = 0
    /\ transitions = 0
    /\ running = TRUE
    /\ fullscreen = FALSE
    /\ pc = "object"
    /\ now = 0
    /\ full_text \in TextInputs
    /\ current_index = 0
    /\ last_update = 0
    /\ sound \in BOOLEAN
    /\ channel_busy = FALSE
    /\ playbacks = 0
    /\ font = MainFont
    /\ max_width = text_area_width - 2 * text_margin
    /\ max_height = text_area_height - 2 * text_margin
    /\ surface = Blank
    /\ table = "shipped"
    /\ period = 0
    /\ other = NoObject
    /\ frame_due = {}

NextTW ==
    \/ \E text \in TextInputs : TWSetText(text)
    \/ TWUpdate
    \/ TWComplete
    \/ TWDraw
    \/ \E d \in TickSteps : Tick(d)
    \/ SoundEnds

SpecTW == InitTW /\ [][NextTW]_vars

-----------------------------------------------------------------------------
(* A TypewriterText drawn on a surface *)

\* texts in which the words draw formats occur
SpecialTexts == {"Chapter 14 years", "Chapter 1\n14 years"}

DrawTexts == TextInputs \cup SpecialTexts

\* the fonts and the sizes of the text area of the objects drawn: a narrow
\* area that two lines fill, an area whose height is no multiple of the line
\* size, and an area as wide as the special texts
Layouts ==
    { [font |-> [char_width |-> 1, linesize |-> 2], max_width |-> 2, max_height |-> 4],
      [font |-> [char_width |-> 1, linesize |-> 3], max_width |-> 3, max_height |-> 7],
      [font |-> [char_width |-> 2, linesize |-> 3], max_width |-> 40, max_height |-> 5] }

\* a call of draw on the surface
Draw ==
    /\ pc = "object"
    /\ draw
    /\ surface' = rendering
    /\ UNCHANGED <<main_vars, pc, now, table, sched_vars>>

\* the clock between two calls
DrawTick(d) ==
    /\ pc = "object"
    /\ now + d <= MaxDrawTicks
    /\ now' = now + d
    /\ UNCHANGED <<main_vars, pc, tw_vars, surface, table, sched_vars>>

\* __init__: lines 41-66, with the text, the font and the sizes given
InitDraw ==
    /\ table = "shipped"
    /\ game_state = "narrative"
    /\ current_node_key = "start"
    /\ next_key = ""
    /\ accepted = 0
    /\ transitions = 0
    /\ running = TRUE
    /\ fullscreen = FALSE
    /\ pc = "object"
    /\ now = 0
    /\ full_text \in DrawTexts
    /\ current_index = 0
    /\ last_update = 0
    /\ sound = FALSE
    /\ channel_busy = FALSE
    /\ playbacks = 0
    /\ \E l \in Layouts :
          /\ font = l.font
          /\ max_width = l.max_width
          /\ max_height = l.max_height
    /\ surface = Blank
    /\ period = 0
    /\ other = NoObject
    /\ frame_due = {}

NextDraw ==
    \/ TWUpdate
    \/ TWComplete
    \/ Draw
    \/ \E d \in DrawSteps : DrawTick(d)

SpecDraw == InitDraw /\ [][NextDraw]_vars

-----------------------------------------------------------------------------
(* Two TypewriterText objects with the same text, each updated at a fixed
   frame period of its own *)

\* the frame periods, in ms: 60, 40 and 20 passes of the loop per second
\* (clock.tick(60) of line 422 makes a pass last 16 ms at least)
Periods == {16, 24, 48}

\* the smaller of two numbers
Min(a, b) == IF a <= b THEN a ELSE b

\* the time of the first frame after time t of a schedule of period p
next_frame(p, t) == (t \div p + 1) * p

\* update(), lines 81-89, on the second object: its fields after the call
\* at time now (it has no sound)
updated(obj) ==
    IF ~(obj.current_index >= Len(full_text)) /\ now - obj.last_update > delay
    THEN [obj EXCEPT !.last_update = now, !.current_index = obj.current_index + 1]
    ELSE obj

\* the clock reaches the next frame of one schedule or of both
FRTick ==
    /\ pc = "object"
    /\ frame_due = {}
    /\ LET t == Min(next_frame(period, now), next_frame(other.period, now)) IN
          /\ t <= MaxTicks
          /\ now' = t
          /\ frame_due' = {o \in {"self", "other"} :
                              t = next_frame(IF o = "self" THEN period ELSE other.period, now)}
    /\ UNCHANGED <<main_vars, pc, tw_vars, surface, table, period, other>>

\* the frame of the first object: typewriter.update(), line 390
FRUpdate ==
    /\ pc = "object"
    /\ "self" \in frame_due
    /\ update
    /\ frame_due' = frame_due \ {"self"}
    /\ UNCHANGED <<main_vars, pc, now, surface, table, period, other>>

\* the frame of the second object
FRUpdateOther ==
    /\ pc = "object"
    /\ "other" \in frame_due
    /\ other' = updated(other)
    /\ frame_due' = frame_due \ {"other"}
    /\ UNCHANGED <<main_vars, pc, tw_vars, now, surface, table, period>>

\* both objects after set_text of the same text at time 0
InitFR ==
    /\ table = "shipped"
    /\ game_state = "narrative"
    /\ current_node_key = "start"
    /\ next_key = ""
    /\ accepted = 0
    /\ transitions = 0
    /\ running = TRUE
    /\ fullscreen = FALSE
    /\ pc = "object"
    /\ now = 0
    /\ full_text \in TextInputs
    /\ current_index = 0
    /\ last_update = 0
    /\ sound = FALSE
    /\ channel_busy = FALSE
    /\ playbacks = 0
    /\ font = MainFont
    /\ max_width = text_area_width - 2 * text_margin
    /\ max_height = text_area_height - 2 * text_margin
    /\ surface = Blank
    /\ period \in Periods
    /\ \E p \in Periods : other = [period |-> p, current_index |-> 0, last_update |-> 0]
    /\ frame_due = {}

NextFR ==
    \/ FRTick
    \/ FRUpdate
    \/ FRUpdateOther

SpecFR == InitFR /\ [][NextFR]_vars

-----------------------------------------------------------------------------
(* Properties of the story navigation (checked under Spec) *)

\* the decimal digit Python's str() gives for 1..9
Digits == <<"1", "2", "3", "4", "5", "6", "7", "8", "9">>

\* the key the documented rule derives from key K and 0-based index i
ExpectedKey(K, i) == IF K = "start" THEN Digits[i + 1] ELSE K \o "_" \o Digits[i + 1]

\* the digit key pressed is a choice the current node offers, in state 'choice'
Accepted(key) ==
    /\ game_state = "choice"
    /\ K_1 <= key /\ key <= K_9
    /\ key - K_1 < Len(story[current_node_key].choices)

\* key names a content node of the table
Authored(k) == k \in DOMAIN story /\ "text" \in DOMAIN story[k]

\* C1: an accepted choice i derives str(i+1) from "start" and "<K>_<i+1>"
\* from any other key K; "start" with 0 leads to "1", with 1 to "2", "1"
\* with 1 to "1_2"; when the derived key is an authored content node it
\* becomes the current node key.
C1_KeyDerivation ==
    [][\A key \in Keys :
          (KeyDown(key) /\ Accepted(key)) =>
             LET i == key - K_1
                 K == current_node_key
             IN /\ next_key' = ExpectedKey(K, i)
                /\ Authored(ExpectedKey(K, i)) => current_node_key' = ExpectedKey(K, i)
                /\ (K = "start" /\ i = 0) => current_node_key' = "1"
                /\ (K = "start" /\ i = 1) => current_node_key' = "2"
                /\ (K = "1" /\ i = 1) => current_node_key' = "1_2"]_vars

\* the choice with index 1 was accepted at "1" and led to "1_2"
C1_Witness ==
    /\ next_key = "1_2"
    /\ current_node_key = "1_2"
    /\ full_text = story["1_2"].text

\* C2: when the derived key names a redirect node the current node key
\* becomes the redirect's target, which is a content node, and the text set
\* and the choices offered are the target's; index 0 at "1_2" derives
\* "1_2_1" and shows "1_1".
C2_Redirect ==
    [][\A key \in Keys :
          (KeyDown(key) /\ Accepted(key)) =>
             LET d == ExpectedKey(current_node_key, key - K_1) IN
             /\ (d \in DOMAIN story /\ "redirect" \in DOMAIN story[d]) =>
                   /\ current_node_key' = story[d].redirect
                   /\ Authored(current_node_key')
                   /\ full_text' = story[story[d].redirect].text
                   /\ current_index' = 0
                   /\ choices_of(current_node_key') = story[story[d].redirect].choices
             /\ (current_node_key = "1_2" /\ key = K_1) =>
                   /\ next_key' = "1_2_1"
                   /\ current_node_key' = "1_1"
                   /\ full_text' = story["1_1"].text
                   /\ choices_of(current_node_key') =
                         <<"Wear coat",
                           "Wear coat and take metal hanger as weapon",
                           "Just enter">>
                   /\ game_state' = "narrative"]_vars

\* the redirect was followed: the derived key is "1_2_1", the node shown "1_1"
C2_Witness ==
    /\ next_key = "1_2_1"
    /\ current_node_key = "1_1"
    /\ full_text = story["1_1"].text
    /\ game_state = "choice"

\* C3: an accepted choice whose derived key is not in the table puts the game
\* in 'ending' with the fixed message, resets the reveal progress, leaves the
\* current node key alone and raises nothing.
C3_Unwritten ==
    [][\A key \in Keys :
          (KeyDown(key) /\ Accepted(key)
             /\ ExpectedKey(current_node_key, key - K_1) \notin DOMAIN story) =>
             /\ game_state' = "ending"
             /\ full_text' = "This path has not been written yet. The story ends here."
             /\ current_index' = 0
             /\ current_node_key' = current_node_key
             /\ pc' = "loop"]_vars

\* an unwritten path was taken from a node of the deepest level
C3_Witness ==
    /\ game_state = "ending"
    /\ next_key = "1_1_3_2_3"
    /\ current_node_key = "1_1_3_2"
    /\ full_text = "This path has not been written yet. The story ends here."

\* C4 as stated: wherever "2_2_1" offers its choices, pressing key '3'
\* (index 2) ends the game with the message of the unwritten path.
C4_Original ==
    (game_state = "choice" /\ current_node_key = "2_2_1" /\ pc = "loop") =>
       ENABLED (/\ KeyDown(K_1 + 2)
                /\ game_state' = "ending"
                /\ full_text' = "This path has not been written yet. The story ends here.")

\* C4 amended: "2_2_1" offers two choices; index 0 and index 1 (keys '1' and
\* '2') are unwritten paths that end the game with the message, and index 2
\* (key '3') is out of range there and changes nothing.
C4_Amended ==
    [][(game_state = "choice" /\ current_node_key = "2_2_1") =>
          /\ \A key \in {K_1, K_1 + 1} :
                KeyDown(key) =>
                   /\ game_state' = "ending"
                   /\ full_text' = "This path has not been written yet. The story ends here."
          /\ KeyDown(K_1 + 2) =>
                UNCHANGED <<game_state, current_node_key, next_key, pc, tw_vars>>]_vars

\* index 1 was chosen at "2_2_1"
C4_Witness ==
    /\ current_node_key = "2_2_1"
    /\ next_key = "2_2_1_2"
    /\ game_state = "ending"
    /\ full_text = "This path has not been written yet. The story ends here."

\* C5: a digit key beyond the choices offered (state 'choice'), and any digit
\* key in state 'narrative' or 'ending', changes neither the current node key,
\* the game state, the full text nor the reveal progress, and raises nothing.
C5_IgnoredInput ==
    [][\A key \in K_1 .. K_9 :
          (/\ KeyDown(key)
           /\ \/ game_state = "choice" /\ key - K_1 >= Len(story[current_node_key].choices)
              \/ game_state \in {"narrative", "ending"}) =>
             /\ UNCHANGED <<current_node_key, game_state, full_text, current_index>>
             /\ pc' = "loop"]_vars

\* a state in which key '3' is ignored: "2_2_1" offering its two choices
C5_Witness ==
    /\ game_state = "choice"
    /\ current_node_key = "2_2_1"
    /\ Len(choices_of(current_node_key)) = 2
    /\ current_index = Len(full_text)

\* C6: no transition raises; the node shown after a transition is an authored
\* content node (or the current one, with the message of the unwritten path),
\* and in the table every derived key that is a redirect names such a node.
C6_NeverFails ==
    /\ pc # "KeyError"
    /\ Authored(current_node_key)
    /\ "redirect" \notin DOMAIN choices_tree[current_node_key]
    /\ \/ full_text = choices_tree[current_node_key].text
       \/ full_text = "This path has not been written yet. The story ends here."
    /\ \A k \in DOMAIN choices_tree :
          \A i \in 0 .. (Len(choices_of(k)) - 1) :
             LET d == ExpectedKey(k, i) IN
             d \in DOMAIN choices_tree =>
                LET t == IF "redirect" \in DOMAIN choices_tree[d]
                         THEN choices_tree[d].redirect
                         ELSE d
                IN /\ t \in DOMAIN choices_tree
                   /\ "text" \in DOMAIN choices_tree[t]
                   /\ "redirect" \notin DOMAIN choices_tree[t]

\* a transition through the redirect node has completed
C6_Witness ==
    /\ next_key = "1_2_1"
    /\ pc = "loop"
    /\ game_state = "narrative"
    /\ full_text = choices_tree[current_node_key].text

-----------------------------------------------------------------------------
(* Properties of TypewriterText (checked under SpecTW) *)

\* C7: 0 <= current_index <= len(full_text), and is_finished() is true
\* exactly when current_index = len(full_text).
C7_IndexInRange ==
    /\ 0 <= current_index
    /\ current_index <= Len(full_text)
    /\ is_finished <=> (current_index = Len(full_text))

\* two characters of a text of three are revealed: update ran twice
C7_Witness ==
    /\ Len(full_text) = 3
    /\ current_index = 2
    /\ ~is_finished

\* C8: update and complete never decrease current_index, draw leaves it
\* alone, set_text makes it 0, and a step that decreases it is a set_text.
C8_Monotonic ==
    [][/\ (TWUpdate \/ TWComplete) => current_index' >= current_index
       /\ TWDraw => current_index' = current_index
       /\ TWSetText(full_text') => current_index' = 0
       /\ (current_index' < current_index) =>
             /\ current_index' = 0
             /\ full_text' \in TextInputs
             /\ TWSetText(full_text')]_vars

\* a text was set after the clock had advanced, and nothing is revealed yet
C8_Witness ==
    /\ current_index = 0
    /\ Len(full_text) > 0
    /\ last_update = now
    /\ now > delay

\* C9: after complete() the text is finished, and update() on a finished
\* text leaves current_index at len(full_text), whatever the time.
C9_Complete ==
    [][/\ TWComplete => (is_finished' /\ current_index' = Len(full_text))
       /\ (TWUpdate /\ current_index = Len(full_text)) =>
             current_index' = Len(full_text')]_vars

\* a text of three characters is fully revealed before three delays have
\* passed: complete() was called
C9_Witness ==
    /\ Len(full_text) = 3
    /\ current_index = 3
    /\ now <= 3 * delay

\* C10: update() reveals exactly one character and records the time when the
\* text is not finished and more than the delay has passed since last_update;
\* otherwise it leaves current_index and last_update alone.
C10_UpdateStep ==
    [][TWUpdate =>
          IF current_index < Len(full_text) /\ now - last_update > delay
          THEN current_index' = current_index + 1 /\ last_update' = now
          ELSE UNCHANGED <<current_index, last_update>>]_vars

\* one character, and no more, is revealed by an update made when the clock
\* is past two delays
C10_Witness ==
    /\ current_index = 1
    /\ Len(full_text) = 3
    /\ last_update = now
    /\ now > 2 * delay

-----------------------------------------------------------------------------
(* The story table *)

\* a node with 'text' and 'choices' and no 'redirect'
ContentNode(n) ==
    /\ "text" \in DOMAIN n
    /\ "choices" \in DOMAIN n
    /\ "redirect" \notin DOMAIN n

\* a node with 'redirect' and neither 'text' nor 'choices'
AliasNode(n) ==
    /\ "redirect" \in DOMAIN n
    /\ "text" \notin DOMAIN n
    /\ "choices" \notin DOMAIN n

\* C14: every node of the shipped table is a content node or a pure alias,
\* never both and never neither, and every redirect names a key of the table
\* whose node is a content node.
C14_WellFormed ==
    \A k \in DOMAIN choices_tree :
        LET n == choices_tree[k] IN
        /\ ContentNode(n) \/ AliasNode(n)
        /\ ~(ContentNode(n) /\ AliasNode(n))
        /\ AliasNode(n) =>
              /\ n.redirect \in DOMAIN choices_tree
              /\ ContentNode(choices_tree[n.redirect])

\* the alias of the table has been followed and its target is being typed
C14_Witness ==
    /\ \E k \in DOMAIN choices_tree :
          /\ AliasNode(choices_tree[k])
          /\ next_key = k
          /\ current_node_key = choices_tree[k].redirect
    /\ game_state = "narrative"
    /\ current_index > 0
    /\ ~is_finished

-----------------------------------------------------------------------------
(* The game states *)

\* C18: between two passes of the loop, game state 'choice' implies that the
\* text is finished and that the current node key names a node of the table
\* that is not a redirect and has at least one choice; the state goes from
\* 'narrative' to 'choice' only in a pass whose update leaves the text
\* finished; and the node key changes (a choice is accepted) only in state
\* 'choice', with the text finished.
C18_ChoiceState ==
    /\ [](game_state = "choice" =>
            /\ is_finished
            /\ current_node_key \in DOMAIN choices_tree
            /\ "redirect" \notin DOMAIN choices_tree[current_node_key]
            /\ Len(choices_of(current_node_key)) >= 1)
    /\ [][/\ (game_state = "narrative" /\ game_state' = "choice") =>
                /\ \E d \in FrameSteps : Frame(d)
                /\ is_finished'
          /\ (next_key' # next_key \/ current_node_key' # current_node_key
                \/ full_text' # full_text) =>
                /\ game_state = "choice"
                /\ is_finished
                /\ \E key \in K_1 .. K_9 : KeyDown(key)]_vars

\* a second choice has been accepted and its text typed to the end
C18_Witness ==
    /\ game_state = "choice"
    /\ current_node_key = "1_1"
    /\ next_key = "1_1"
    /\ is_finished
    /\ Len(choices_of(current_node_key)) = 3


-----------------------------------------------------------------------------
(* The typing sound (checked under SpecTW) *)

\* C17: the channel never holds more than one playback; a playback is started
\* only by an update that reveals a character while the channel is not busy,
\* one playback at most per revealed character; and the channel is stopped
\* at the return of an update that leaves the text finished, of complete and
\* of set_text.
C17_NoOverlap ==
    /\ [](/\ playbacks <= 1
          /\ channel_busy <=> playbacks = 1
          /\ channel_busy => sound)
    /\ [][/\ (playbacks' > playbacks) =>
                /\ TWUpdate
                /\ ~channel_busy
                /\ current_index' = current_index + 1
                /\ playbacks' = 1
          /\ (TWUpdate /\ is_finished') => ~channel_busy'
          /\ TWComplete => ~channel_busy'
          /\ TWSetText(full_text') => ~channel_busy']_vars

\* the second character was revealed while the playback started for the
\* first was still running
C17_Witness ==
    /\ sound
    /\ channel_busy
    /\ playbacks = 1
    /\ current_index = 2
    /\ Len(full_text) = 3
    /\ last_update = now

-----------------------------------------------------------------------------
(* Endings and redirects on any table (checked under SpecAny) *)

\* the node of key k has a choice list that is not empty
HasChoices(k) ==
    /\ k \in DOMAIN choices_tree
    /\ "choices" \in DOMAIN choices_tree[k]
    /\ Len(choices_tree[k].choices) > 0

\* the digit key pressed is a choice the node shown offers, in state 'choice'
Offered(key) ==
    /\ game_state = "choice"
    /\ K_1 <= key /\ key <= K_9
    /\ HasChoices(current_node_key)
    /\ key - K_1 < Len(choices_tree[current_node_key].choices)

\* C15: an accepted choice whose derived key is in the table leaves the game
\* in 'ending' when the node moved to has no choices and in 'narrative' when
\* it has some; and the game is in 'ending' only when the node shown has no
\* choices or the derived key was absent from the table.
C15_EndingClass ==
    /\ [][\A key \in Keys :
            (KeyDown(key) /\ Offered(key)
               /\ ExpectedKey(current_node_key, key - K_1) \in DOMAIN choices_tree) =>
                  /\ pc' = "loop"
                  /\ game_state' = IF HasChoices(current_node_key')
                                   THEN "narrative"
                                   ELSE "ending"]_vars
    /\ [](game_state = "ending" =>
             \/ ~HasChoices(current_node_key)
             \/ /\ next_key \notin DOMAIN choices_tree
                /\ full_text = UNWRITTEN)

\* the node without choices of table "ending" is shown and the game has ended
C15_Witness ==
    /\ table = "ending"
    /\ game_state = "ending"
    /\ current_node_key = "1"
    /\ next_key = "1"
    /\ full_text = "e"


\* C16: on any table, chained and cyclic redirects included, the current node
\* key always names a node of the table that is not a redirect, so no
\* redirect node is ever the node shown.
C16_RedirectsResolved ==
    /\ current_node_key \in DOMAIN choices_tree
    /\ "redirect" \notin DOMAIN choices_tree[current_node_key]
    /\ pc # "KeyError"

-----------------------------------------------------------------------------
(* Wrapping and drawing (checked under SpecDraw) *)

\* the prefix draw wraps
Revealed == SubSeq(full_text, 1, current_index)

\* C12 as stated: a draw of the empty prefix wraps it into zero lines, so
\* that the line count and the number of drawn lines are 0 and nothing of
\* the text is put on the surface.
C12_Original ==
    [][(Draw /\ Revealed = "") =>
          /\ Len(surface'.lines) = 0
          /\ surface'.visible = {}
          /\ \A i \in 1 .. Len(surface'.blits) : surface'.blits[i].text = "_"]_vars

\* C12, amended: a draw of the empty prefix wraps it into exactly one empty
\* line: the line count is 1, the block is one line high and does not scroll
\* when a line fits in the area, that line is drawn (an empty text) at the
\* text origin, and the cursor, when shown, is at the text origin.
C12_Amended ==
    [][(Draw /\ Revealed = "") =>
          /\ surface'.lines = <<"">>
          /\ Len(surface'.lines) * font.linesize = font.linesize
          /\ font.linesize <= max_height =>
                /\ surface'.start_y = pos[2]
                /\ surface'.visible = {1}
                /\ surface'.blits[1] = [text |-> "", color |-> "color",
                                       x |-> pos[1], y |-> pos[2]]
                /\ \A i \in 2 .. Len(surface'.blits) :
                      surface'.blits[i] = [text |-> "_", color |-> "color",
                                           x |-> pos[1], y |-> pos[2]]
                /\ Len(surface'.blits) =
                      IF ~is_finished /\ now % 1000 < 500 THEN 2 ELSE 1]_vars

\* a text that is not empty was drawn before any of it was revealed
C12_Witness ==
    /\ surface.drawn
    /\ current_index = 0
    /\ Len(full_text) = 3
    /\ surface.lines = <<"">>
    /\ Len(surface.blits) = 2


RECURSIVE Count(_, _)
\* the number of elements of the sequence ss that are in the set S
Count(ss, S) ==
    IF ss = <<>>
    THEN 0
    ELSE (IF Head(ss) \in S THEN 1 ELSE 0) + Count(Tail(ss), S)

\* the paragraphs of the text s that hold no word
BlankParagraphs(s) ==
    LET ps == Split(s, "\n")
    IN {ps[i] : i \in {j \in 1 .. Len(ps) : Strip(ps[j]) = ""}}

\* C13: every line draw gets from wrap_text is at most max_width wide, and
\* wrap_text returns as many lines without a word as the wrapped text has
\* paragraphs without a word.
C13_WrapFits ==
    [][Draw =>
          /\ \A i \in 1 .. Len(surface'.lines) :
                size(surface'.lines[i]) <= max_width
          /\ Count(surface'.lines, {""})
                = Count(Split(Revealed, "\n"), BlankParagraphs(Revealed))]_vars


\* C19: a draw of n lines of height h > 0 in an area of height H >= h
\* starts the block at the top of the area when n*h <= H, and then draws
\* every line; when n*h > H it starts the block n*h - H above the top, so
\* that the last line is at top + H - h and is drawn.  The lines drawn are
\* those whose position is in [top, top + H): the last ones, without a gap,
\* each put on the surface at its position and no other line.
C19_ScrollToBottom ==
    [][Draw =>
          LET n == Len(surface'.lines)
              h == font.linesize
              H == max_height
              top == pos[2]
              y(i) == surface'.start_y + (i - 1) * h
          IN (h > 0 /\ H >= h) =>
                /\ n >= 1
                /\ (n * h > H) =>
                      /\ surface'.start_y = top - (n * h - H)
                      /\ y(n) = top + H - h
                /\ (n * h <= H) =>
                      /\ surface'.start_y = top
                      /\ surface'.visible = 1 .. n
                /\ n \in surface'.visible
                /\ surface'.visible = {i \in 1 .. n : top <= y(i) /\ y(i) < top + H}
                /\ \E k \in 1 .. n : surface'.visible = k .. n
                /\ \A i \in 1 .. n :
                      (i \in surface'.visible) <=>
                         \E b \in 1 .. Len(surface'.blits) :
                            /\ surface'.blits[b].y = y(i)
                            /\ surface'.blits[b].text # "_"]_vars

\* three lines of height 3 drawn in an area of height 7: the block starts 2
\* above the top and the last two lines are drawn
C19_Witness ==
    /\ surface.drawn
    /\ Len(surface.lines) = 3
    /\ font.linesize = 3
    /\ max_height = 7
    /\ surface.start_y = pos[2] - 2
    /\ surface.visible = {2, 3}

-----------------------------------------------------------------------------
(* The reveal rate (checked under SpecFR) *)

\* C11: two objects given the same text at the same time and updated at fixed
\* frame periods have revealed the same number of characters at every time
\* that is a frame of both, once both have been updated; the number depends
\* on the time and the delay only, not on the period.
C11_FrameRateIndependent ==
    (/\ frame_due = {}
     /\ now % period = 0
     /\ now % other.period = 0) =>
        current_index = other.current_index

\* the characters a schedule of period p has revealed of a text of n
\* characters after its frame at time t: one at the first frame more than
\* delay after the one before
RevealedBy(p, n, t) == Min(n, t \div (p * (delay \div p + 1)))

\* the two encodings of update agree, and each schedule reveals one character
\* per p * (delay \div p + 1) ms, which depends on its period p
FR_Rate ==
    /\ (period = other.period /\ frame_due \in {{}, {"self", "other"}}) =>
          /\ current_index = other.current_index
          /\ last_update = other.last_update
    /\ "self" \notin frame_due =>
          current_index = RevealedBy(period, Len(full_text), (now \div period) * period)
    /\ "other" \notin frame_due =>
          other.current_index =
             RevealedBy(other.period, Len(full_text), (now \div other.period) * other.period)

-----------------------------------------------------------------------------
(* Termination of a play (checked under SpecPlay) *)

-----------------------------------------------------------------------------
(* The passes of the loop (checked under Spec) *)

\* C22: no pass of the loop accepts more than one choice: after the choice
\* accepted in a pass the game state is 'narrative' or 'ending' until the
\* end of the events of that pass, no further event of the pass changes the
\* node, and the state is 'choice' again only after the update of a pass,
\* with the text finished.
C22_OneTransitionPerFrame ==
    /\ [](/\ transitions <= 1
          /\ transitions = 1 => game_state \in {"narrative", "ending"})
    /\ [][/\ transitions = 1 =>
                /\ accepted' = accepted
                /\ UNCHANGED <<current_node_key, next_key, full_text>>
                /\ game_state' # game_state =>
                      /\ \E d \in FrameSteps : Frame(d)
                      /\ game_state' = "choice"
                      /\ is_finished'
          /\ transitions' < transitions => \E d \in FrameSteps : Frame(d)
          /\ transitions' > transitions =>
                /\ transitions = 0
                /\ game_state = "choice"
                /\ \E key \in K_1 .. K_9 : KeyDown(key)]_vars

\* in the pass of the second accepted choice SPACE has completed the new
\* text, and the game is still in 'narrative'
C22_Witness ==
    /\ transitions = 1
    /\ accepted = 2
    /\ game_state = "narrative"
    /\ is_finished
    /\ last_update = now

=============================================================================
